---- MODULE Spec2Model ----
(***************************************************************************)
(* Model of photogrammetry.py: the CameraModel and DoubleCameraModel       *)
(* classes and the file mode of the script.                                *)
(*                                                                         *)
(* Two specifications:                                                     *)
(*   Spec      the two classes called by an arbitrary client.  Real        *)
(*             numbers are exact rationals <<n, d>>; cameras are small so  *)
(*             that every pixel coordinate of a frame, and the ones just   *)
(*             outside it, are enumerated.                                 *)
(*   SpecFile  the script in file mode (lines 124-151) on its own globals  *)
(*             cam = CameraModel(2048, 1080, radians(78)), baseline 100,   *)
(*             computed in IEEE-754 binary64 as numpy computes it.         *)
(***************************************************************************)
EXTENDS Integers, Sequences, FiniteSets, TLC

(***************************************************************************)
(* Bounds of the model.                                                    *)
(***************************************************************************)
MaxW == 4
MaxH == 1

VARIABLES
    cam,     \* SpecCam: the CameraModel instance under test
    xy,      \* SpecCam: the client's pixel pair (x0, y0)
    dcam,    \* the DoubleCameraModel instance and, in it, its three cameras
    coords,  \* Spec: the client's pixel pairs <<left_coords, right_coords>>
    call,    \* the last call made: the method and its arguments
    ret,     \* what that call returned or raised
    first,   \* Spec: what the first obj_coords call returned or raised
    file,    \* SpecFile: the rows of the file named by sys.argv[1]
    data,    \* SpecFile: the array np.loadtxt returned
    row_i,   \* SpecFile: i, the index of the loop of line 143
    out,     \* SpecFile: the lines printed so far
    pc       \* SpecFile: where the script is

vars == <<cam, xy, dcam, coords, call, ret, first, file, data, row_i, out, pc>>
camVars == <<cam, xy>>
rigVars == <<dcam, coords, first>>
fileVars == <<file, data, row_i, out, pc>>

(***************************************************************************)
(* Exact rational arithmetic: <<n, d>> with d > 0, in lowest terms.        *)
(***************************************************************************)
Abs(n) == IF n < 0 THEN -n ELSE n

RECURSIVE Gcd(_, _)
Gcd(a, b) == IF b = 0 THEN a ELSE Gcd(b, a % b)

Norm(n, d) ==
    LET g == Gcd(Abs(n), Abs(d))
        s == IF d < 0 THEN -1 ELSE 1
    IN  <<s * (n \div g), s * (d \div g)>>

R(n) == <<n, 1>>
RAdd(a, b) ==
    LET g == Gcd(a[2], b[2])
    IN  Norm(a[1] * (b[2] \div g) + b[1] * (a[2] \div g), (a[2] \div g) * b[2])
RNeg(a) == <<-a[1], a[2]>>
RSub(a, b) == RAdd(a, RNeg(b))
RMul(a, b) ==
    LET x == Norm(a[1], b[2])
        y == Norm(b[1], a[2])
    IN  Norm(x[1] * y[1], x[2] * y[2])
RInv(a) == Norm(a[2], a[1])
RDiv(a, b) == RMul(a, RInv(b))
RLt(a, b) == a[1] * b[2] < b[1] * a[2]
RLe(a, b) == a[1] * b[2] <= b[1] * a[2]
RSq(a) == RMul(a, a)

\* Python's int() on a real: truncation towards zero.
Trunc(a) == IF a[1] >= 0 THEN a[1] \div a[2] ELSE -((-a[1]) \div a[2])

(***************************************************************************)
(* 3x3 matrices and row vectors over the rationals.                        *)
(***************************************************************************)
Idx == 1..3

\* numpy's v @ M for a row vector v.
VecMat(v, M) ==
    [j \in Idx |-> RAdd(RAdd(RMul(v[1], M[1][j]), RMul(v[2], M[2][j])),
                        RMul(v[3], M[3][j]))]

Minor(M, i, j) ==
    LET r == Idx \ {i}
        c == Idx \ {j}
        r1 == CHOOSE x \in r : \A y \in r : x <= y
        r2 == CHOOSE x \in r : \A y \in r : x >= y
        c1 == CHOOSE x \in c : \A y \in c : x <= y
        c2 == CHOOSE x \in c : \A y \in c : x >= y
    IN  RSub(RMul(M[r1][c1], M[r2][c2]), RMul(M[r1][c2], M[r2][c1]))

Cofactor(M, i, j) ==
    IF (i + j) % 2 = 0 THEN Minor(M, i, j) ELSE RNeg(Minor(M, i, j))

Det(M) ==
    RAdd(RAdd(RMul(M[1][1], Cofactor(M, 1, 1)), RMul(M[1][2], Cofactor(M, 1, 2))),
         RMul(M[1][3], Cofactor(M, 1, 3)))

\* Inv with the cofactor matrix left untransposed.
InvUntransposed(M) == [i \in Idx |-> [j \in Idx |-> RDiv(Cofactor(M, i, j), Det(M))]]

\* np.linalg.inv: the inverse, as adjugate over determinant.
Inv(M) == [i \in Idx |-> [j \in Idx |-> RDiv(Cofactor(M, j, i), Det(M))]]

(***************************************************************************)
(* np.tan(aov / 2).  An angle of view is named by its half-angle tangent,  *)
(* a positive rational (0 < aov < pi), so that the tangent is exact:       *)
(* <<1, 1>> is aov = pi/2, <<1, 2>> is aov = 2 atan(1/2), <<2, 1>> is      *)
(* aov = 2 atan(2).                                                        *)
(***************************************************************************)
TanHalf(aov) == aov

(***************************************************************************)
(* Outcomes of a call: a returned value or a raised ValueError.            *)
(***************************************************************************)
NegativeMsg == "Coordinate values must be greater than zero in default CS."
ExceedMsg == "Coordinate values must not exceed frame width and height."
NoCrossMsg == "Incorrect coordinate values. Lines of sight of cameras do not cross."

Ok(v) == [kind |-> "ok", val |-> v]
Raise(m) == [kind |-> "ValueError", msg |-> m]
IsOk(o) == o.kind = "ok"

(***************************************************************************)
(* class CameraModel                                                       *)
(***************************************************************************)
CameraModel(frame_width, frame_height, angle_of_view) ==
    LET T_c == << <<R(1), R(0), R(0)>>,
                  <<R(0), R(-1), R(0)>>,
                  <<RDiv(R(-frame_width), R(2)), RDiv(R(frame_height), R(2)), R(1)>> >>
    IN  [width |-> frame_width, height |-> frame_height, aov |-> angle_of_view,
         T_c |-> T_c, T_d |-> Inv(T_c)]

\* to_central rejecting the last row and column of the frame (>= for >).
to_central_ge(self, x0, y0) ==
    IF x0 < 0 \/ y0 < 0 THEN Raise(NegativeMsg)
    ELSE IF x0 >= self.width \/ y0 >= self.height THEN Raise(ExceedMsg)
    ELSE LET v == VecMat(<<R(x0), R(y0), R(1)>>, self.T_c)
         IN  Ok(<<v[1], v[2]>>)

to_central(self, x0, y0) ==
    IF x0 < 0 \/ y0 < 0 THEN Raise(NegativeMsg)
    ELSE IF x0 > self.width \/ y0 > self.height THEN Raise(ExceedMsg)
    ELSE LET v == VecMat(<<R(x0), R(y0), R(1)>>, self.T_c)
         IN  Ok(<<v[1], v[2]>>)

to_default(self, x, y) ==
    LET v == VecMat(<<x, y, R(1)>>, self.T_d)
    IN  Ok(<<v[1], v[2]>>)

\* obj_angle without the factor 2: the tangent of half the offset.
obj_angle_half(self, x0, y0) ==
    LET c == to_central(self, x0, y0)
    IN  IF ~IsOk(c) THEN c
        ELSE Ok(RDiv(RMul(TanHalf(self.aov), c.val[1]), R(self.width)))

obj_angle(self, x0, y0) ==
    LET c == to_central(self, x0, y0)
    IN  IF ~IsOk(c) THEN c
        ELSE Ok(RDiv(RMul(RMul(TanHalf(self.aov), c.val[1]), R(2)), R(self.width)))

obj_angle_err(self) ==
    Ok(RDiv(RMul(TanHalf(self.aov), R(2)), R(self.width)))

(***************************************************************************)
(* class DoubleCameraModel                                                 *)
(***************************************************************************)
DoubleCameraModel(left, right, center, distance) ==
    [left |-> left, right |-> right, center |-> center, d |-> distance]

\* obj_dist accepting parallel lines of sight (< for <=); the float64
\* division by zero then gives inf, here <<1, 0>>.
obj_dist_lt(self, left_coords, right_coords) ==
    LET tl == obj_angle(self.left, left_coords[1], left_coords[2])
        tr == obj_angle(self.right, right_coords[1], right_coords[2])
    IN  IF ~IsOk(tl) THEN tl
        ELSE IF ~IsOk(tr) THEN tr
        ELSE IF RLt(RSub(tl.val, tr.val), R(0)) THEN Raise(NoCrossMsg)
        ELSE Ok(RDiv(R(self.d), RSub(tl.val, tr.val)))

\* obj_dist converting the right pair before the left pair.
obj_dist_right_first(self, left_coords, right_coords) ==
    LET tl == obj_angle(self.left, left_coords[1], left_coords[2])
        tr == obj_angle(self.right, right_coords[1], right_coords[2])
    IN  IF ~IsOk(tr) THEN tr
        ELSE IF ~IsOk(tl) THEN tl
        ELSE IF RLe(RSub(tl.val, tr.val), R(0)) THEN Raise(NoCrossMsg)
        ELSE Ok(RDiv(R(self.d), RSub(tl.val, tr.val)))

obj_dist(self, left_coords, right_coords) ==
    LET tl == obj_angle(self.left, left_coords[1], left_coords[2])
        tr == obj_angle(self.right, right_coords[1], right_coords[2])
    IN  IF ~IsOk(tl) THEN tl
        ELSE IF ~IsOk(tr) THEN tr
        ELSE IF RLe(RSub(tl.val, tr.val), R(0)) THEN Raise(NoCrossMsg)
        ELSE Ok(RDiv(R(self.d), RSub(tl.val, tr.val)))

\* The result is a square root; it is kept as [sqrt |-> its square].  A
\* float64 division of the positive baseline by 0.0 gives inf (numpy warns,
\* it does not raise), and inf goes through the products and the root.
obj_dist_err(self, left_coords, right_coords) ==
    LET tl == obj_angle(self.left, left_coords[1], left_coords[2])
        tr == obj_angle(self.right, right_coords[1], right_coords[2])
        tl_err == obj_angle_err(self.left).val
        tr_err == obj_angle_err(self.right).val
    IN  IF ~IsOk(tl) THEN tl
        ELSE IF ~IsOk(tr) THEN tr
        ELSE IF RSq(RSub(tl.val, tr.val)) = R(0) THEN Ok("inf")
        ELSE LET dd_dtan == RDiv(R(self.d), RSq(RSub(tl.val, tr.val)))
             IN  Ok([sqrt |-> RAdd(RSq(RMul(dd_dtan, tl_err)),
                                   RSq(RMul(dd_dtan, tr_err)))])

\* obj_coords taking y0 from the left pair alone.
obj_coords_left_y(self, left_coords, right_coords) ==
    LET dist == obj_dist(self, left_coords, right_coords)
    IN  IF ~IsOk(dist) THEN dist
        ELSE LET angle == RSub(obj_angle(self.left, left_coords[1], left_coords[2]).val,
                               RDiv(RDiv(R(self.d), R(2)), dist.val))
                 x == RDiv(RMul(RDiv(angle, TanHalf(self.center.aov)),
                                R(self.center.width)), R(2))
                 y0 == R(left_coords[2])
                 x0 == to_default(self.center, x, R(0)).val[1]
             IN  Ok(<<Trunc(x0), Trunc(y0), dist.val>>)

obj_coords(self, left_coords, right_coords) ==
    LET dist == obj_dist(self, left_coords, right_coords)
    IN  IF ~IsOk(dist) THEN dist
        ELSE LET angle == RSub(obj_angle(self.left, left_coords[1], left_coords[2]).val,
                               RDiv(RDiv(R(self.d), R(2)), dist.val))
                 x == RDiv(RMul(RDiv(angle, TanHalf(self.center.aov)),
                                R(self.center.width)), R(2))
                 y0 == RDiv(RAdd(R(left_coords[2]), R(right_coords[2])), R(2))
                 x0 == to_default(self.center, x, R(0)).val[1]
             IN  Ok(<<Trunc(x0), Trunc(y0), dist.val>>)

(***************************************************************************)
(* SpecCam: a client of one CameraModel.  It holds one pixel pair and      *)
(* calls the methods on it, any number of times and in any order.          *)
(***************************************************************************)
Aovs == {<<1, 1>>, <<1, 2>>, <<2, 1>>}
Xs == -1 .. MaxW + 1
Ys == -1 .. MaxH + 1
Coords == Xs \X Ys
NoCall == [op |-> "none"]
Unused == "unused"

InitCam ==
    /\ cam \in {CameraModel(w, h, a) : w \in 1 .. MaxW, h \in 1 .. MaxH, a \in Aovs}
    /\ xy \in Coords
    /\ call = NoCall
    /\ ret = NoCall
    /\ dcam = Unused /\ coords = Unused /\ first = Unused
    /\ file = Unused /\ data = Unused /\ row_i = Unused /\ out = Unused /\ pc = Unused

CallToCentral ==
    /\ call' = [op |-> "to_central", args |-> xy]
    /\ ret' = to_central(cam, xy[1], xy[2])
    /\ UNCHANGED <<camVars, rigVars, fileVars>>

\* to_default(*to_central(x0, y0)): the client converts a result back.
CallToDefault ==
    /\ call.op = "to_central"
    /\ IsOk(ret)
    /\ call' = [op |-> "to_default", args |-> ret.val]
    /\ ret' = to_default(cam, ret.val[1], ret.val[2])
    /\ UNCHANGED <<camVars, rigVars, fileVars>>

CallObjAngle ==
    /\ call' = [op |-> "obj_angle", args |-> xy]
    /\ ret' = obj_angle(cam, xy[1], xy[2])
    /\ UNCHANGED <<camVars, rigVars, fileVars>>

CallObjAngleErr ==
    /\ call' = [op |-> "obj_angle_err"]
    /\ ret' = obj_angle_err(cam)
    /\ UNCHANGED <<camVars, rigVars, fileVars>>

NextCam ==
    \/ CallToCentral
    \/ CallToDefault
    \/ CallObjAngle
    \/ CallObjAngleErr

SpecCam == InitCam /\ [][NextCam]_vars

(***************************************************************************)
(* Spec: a client of one DoubleCameraModel.  It holds one pixel pair per   *)
(* camera and calls the three queries on them, any number of times and in  *)
(* any order.                                                              *)
(***************************************************************************)
Cameras == {CameraModel(MaxW, MaxH, <<1, 1>>), CameraModel(MaxW - 1, MaxH, <<1, 2>>)}
Baselines == {1, 3}

Init ==
    /\ dcam \in {DoubleCameraModel(l, r, c, dist) :
                    l \in Cameras, r \in Cameras, c \in Cameras, dist \in Baselines}
    /\ coords \in Coords \X Coords
    /\ call = NoCall
    /\ ret = NoCall
    /\ first = NoCall
    /\ cam = Unused /\ xy = Unused
    /\ file = Unused /\ data = Unused /\ row_i = Unused /\ out = Unused /\ pc = Unused

CallObjDist ==
    /\ call' = [op |-> "obj_dist"]
    /\ ret' = obj_dist(dcam, coords[1], coords[2])
    /\ UNCHANGED <<camVars, rigVars, fileVars>>

CallObjDistErr ==
    /\ call' = [op |-> "obj_dist_err"]
    /\ ret' = obj_dist_err(dcam, coords[1], coords[2])
    /\ UNCHANGED <<camVars, rigVars, fileVars>>

\* obj_coords keeping state: it writes a smaller baseline back into self.d.
CallObjCoordsStateful ==
    /\ call' = [op |-> "obj_coords"]
    /\ ret' = obj_coords(dcam, coords[1], coords[2])
    /\ first' = IF first = NoCall THEN ret' ELSE first
    /\ dcam' = [dcam EXCEPT !.d = IF @ > 1 THEN @ - 1 ELSE @]
    /\ UNCHANGED <<camVars, coords, fileVars>>

CallObjCoords ==
    /\ call' = [op |-> "obj_coords"]
    /\ ret' = obj_coords(dcam, coords[1], coords[2])
    /\ first' = IF first = NoCall THEN ret' ELSE first
    /\ UNCHANGED <<camVars, dcam, coords, fileVars>>

Next ==
    \/ CallObjDist
    \/ CallObjDistErr
    \/ CallObjCoords

Spec == Init /\ [][Next]_vars

(***************************************************************************)
(* Natural numbers below 2^112: eight limbs in base 2^14, least            *)
(* significant first.  They carry the 53-bit significands of float64,      *)
(* their 106-bit products and the dividends of their quotients, which do   *)
(* not fit the 32-bit integers of the model checker.                       *)
(***************************************************************************)
LimbBits == 14
NLimbs == 8
Base == 2 ^ LimbBits
Limbs == 1 .. NLimbs

BigZero == [k \in Limbs |-> 0]
BigOne == [k \in Limbs |-> IF k = 1 THEN 1 ELSE 0]
Limb(a, k) == IF k \in Limbs THEN a[k] ELSE 0

\* For 0 <= n < 2^31.
BigFromInt(n) ==
    [k \in Limbs |-> IF k = 1 THEN (n % Base)
                     ELSE IF k = 2 THEN (n \div Base) % Base
                     ELSE IF k = 3 THEN n \div (Base * Base)
                     ELSE 0]

\* For a < 2^31.
BigToInt(a) == a[1] + Base * a[2] + Base * Base * a[3]

\* The highest limb where a and b differ decides.
BigCmp(a, b) ==
    IF a = b THEN 0
    ELSE IF \E n \in Limbs : a[n] < b[n] /\ \A j \in n + 1 .. NLimbs : a[j] = b[j]
    THEN -1
    ELSE 1

\* a + b: limb k takes a carry when a lower limb overflows and every limb
\* between the two is full.
BigAdd(a, b) ==
    LET t == [k \in Limbs |-> a[k] + b[k]]
        carry(k) == \E j \in 1 .. k - 1 :
                        t[j] >= Base /\ \A n \in j + 1 .. k - 1 : t[n] = Base - 1
    IN  [k \in Limbs |-> (t[k] + (IF carry(k) THEN 1 ELSE 0)) % Base]

\* a - b, for a >= b: limb k gives a borrow when a lower limb is short and
\* every limb between the two is empty.
BigSub(a, b) ==
    LET t == [k \in Limbs |-> a[k] - b[k]]
        borrow(k) == \E j \in 1 .. k - 1 :
                         t[j] < 0 /\ \A n \in j + 1 .. k - 1 : t[n] = 0
    IN  [k \in Limbs |-> (t[k] - (IF borrow(k) THEN 1 ELSE 0) + Base) % Base]

\* a * Base^n.
BigShlLimbs(a, n) == [k \in Limbs |-> Limb(a, k - n)]

\* The number whose limb k is col[k], for columns below Base^3.
BigCarry(col) ==
    BigAdd(BigAdd([k \in Limbs |-> col[k] % Base],
                  BigShlLimbs([k \in Limbs |-> (col[k] \div Base) % Base], 1)),
           BigShlLimbs([k \in Limbs |-> col[k] \div (Base * Base)], 2))

\* a * n, for 0 <= n < Base.
BigMulSmall(a, n) == BigCarry([k \in Limbs |-> a[k] * n])

\* a * b, for a and b below 2^56 (four limbs): the columns of the long
\* multiplication, each below 2^30, then their carries.
BigMul(a, b) ==
    BigCarry([k \in Limbs |->
                 LET p(n) == IF k - n + 1 \in 1 .. 4 THEN a[n] * b[k - n + 1] ELSE 0
                 IN  p(1) + p(2) + p(3) + p(4)])

\* a * 2^n.
BigShl(a, n) ==
    LET q == n \div LimbBits
        r == 2 ^ (n % LimbBits)
    IN  [k \in Limbs |-> ((Limb(a, k - q) * r) % Base) + ((Limb(a, k - q - 1) * r) \div Base)]

\* a \div 2^n.
BigShr(a, n) ==
    LET q == n \div LimbBits
        r == 2 ^ (n % LimbBits)
    IN  [k \in Limbs |-> (Limb(a, k + q) \div r) + ((Limb(a, k + q + 1) % r) * (Base \div r))]

\* Bit n of a (bit 0 is the least significant).
BigBit(a, n) == (Limb(a, n \div LimbBits + 1) \div 2 ^ (n % LimbBits)) % 2

\* Whether a has a 1 among its bits 0 .. n-1.
BigLowBits(a, n) == BigShl(BigShr(a, n), n) # a

BigBitLen(a) ==
    IF a = BigZero THEN 0
    ELSE LET k == CHOOSE n \in Limbs : a[n] # 0 /\ \A j \in n + 1 .. NLimbs : a[j] = 0
             bits == CHOOSE n \in 1 .. LimbBits : 2 ^ (n - 1) <= a[k] /\ a[k] < 2 ^ n
         IN  LimbBits * (k - 1) + bits

\* Long division by b, 2^55 <= b < 2^56, one limb of a at a time from limb
\* k down; r < b is the remainder of the limbs above k and r2 is r with
\* limb k of a appended.  The digit is at most two below top, the quotient
\* of the leading limbs (Knuth, algorithm D).
\* <<quotient limbs k .. 1, remainder>>.
RECURSIVE BigDivFrom(_, _, _, _)
BigDivPut(k, d, rest) == <<[rest[1] EXCEPT ![k] = d], rest[2]>>

BigDivRest(a, b, k, r2, d) ==
    BigDivPut(k, d, BigDivFrom(a, b, k - 1, BigSub(r2, BigMulSmall(b, d))))

BigDivDigit(a, b, k, r2, top) ==
    BigDivRest(a, b, k, r2,
               CHOOSE n \in {x \in top - 2 .. top : x >= 0} :
                   /\ BigCmp(BigMulSmall(b, n), r2) <= 0
                   /\ BigCmp(BigMulSmall(b, n + 1), r2) > 0)

BigDivFrom(a, b, k, r) ==
    IF k = 0 THEN <<BigZero, r>>
    ELSE LET guess == (r[4] * Base + r[3]) \div b[4]
         IN  BigDivDigit(a, b, k, [n \in Limbs |-> IF n = 1 THEN a[k] ELSE r[n - 1]],
                         IF guess > Base - 1 THEN Base - 1 ELSE guess)

\* The remainder of a division whose operands were both scaled by 2^n.
BigUnscale(qr, n) == <<qr[1], BigShr(qr[2], n)>>

\* <<a \div b, a % b>>, for 2^52 <= b < 2^53 and a < 2^109: both are
\* scaled by 8 for the digit estimate, and the remainder scaled back.
BigDivMod(a, b) ==
    BigUnscale(BigDivFrom(BigShl(a, 3), BigShl(b, 3), NLimbs, BigZero), 3)

(***************************************************************************)
(* IEEE-754 binary64, as numpy's float64 and Python's float compute:       *)
(* [s, m, e] is (-1)^s * m * 2^e with m = 0 or 2^52 <= m < 2^53, and every *)
(* operation rounds its exact result to nearest, ties to even.  The values *)
(* of the script stay far from the overflow and the subnormal range.       *)
(***************************************************************************)
Precision == 53

F64Zero == [s |-> 0, m |-> BigZero, e |-> 0]
F64IsZero(a) == a.m = BigZero
F64IsNegative(a) == ~F64IsZero(a) /\ a.s = 1

\* A rounded significand q that the rounding carried to 2^53 is halved.
F64Carry(s, q, e) ==
    IF BigBitLen(q) > Precision
    THEN [s |-> s, m |-> BigShr(q, 1), e |-> e + 1]
    ELSE [s |-> s, m |-> q, e |-> e]

\* q is rounded up when the bits cut off are above one half, or are one half
\* and q is odd.
F64RoundUp(s, q, e, half, low) ==
    F64Carry(s, IF half /\ (low \/ BigBit(q, 0) = 1) THEN BigAdd(q, BigOne) ELSE q, e)

\* The float64 nearest to (-1)^s * (m + f) * 2^e, where 0 <= f < 1, sticky
\* tells whether f > 0 and m has n bits.
F64RoundLen(s, m, e, sticky, n) ==
    IF n = 0 THEN F64Zero
    ELSE IF n <= Precision
    THEN [s |-> s, m |-> BigShl(m, Precision - n), e |-> e - (Precision - n)]
    ELSE F64RoundUp(s, BigShr(m, n - Precision), e + (n - Precision),
                    BigBit(m, n - Precision - 1) = 1,
                    sticky \/ BigLowBits(m, n - Precision - 1))

F64Round(s, m, e, sticky) == F64RoundLen(s, m, e, sticky, BigBitLen(m))

F64FromInt(n) == F64Round(IF n < 0 THEN 1 ELSE 0, BigFromInt(IF n < 0 THEN -n ELSE n), 0, FALSE)

F64Neg(a) == IF F64IsZero(a) THEN a ELSE [a EXCEPT !.s = 1 - @]

F64Mul(a, b) ==
    IF F64IsZero(a) \/ F64IsZero(b) THEN F64Zero
    ELSE F64Round((a.s + b.s) % 2, BigMul(a.m, b.m), a.e + b.e, FALSE)

\* The quotient qr[1] with remainder qr[2], rounded.
F64Quotient(s, qr, e) == F64Round(s, qr[1], e, qr[2] # BigZero)

\* a / b, for b # 0.  Three more quotient bits than the significand has
\* leave a guard bit; the remainder is the sticky bit.
F64Div(a, b) ==
    IF F64IsZero(a) THEN F64Zero
    ELSE F64Quotient((a.s + b.s) % 2, BigDivMod(BigShl(a.m, Precision + 3), b.m),
                     a.e - b.e - (Precision + 3))

\* The sum of (-1)^sa * ma * 2^e and (-1)^sb * mb * 2^e, rounded.
F64AddAligned(sa, ma, sb, mb, e) ==
    IF sa = sb THEN F64Round(sa, BigAdd(ma, mb), e, FALSE)
    ELSE IF BigCmp(ma, mb) >= 0 THEN F64Round(sa, BigSub(ma, mb), e, FALSE)
    ELSE F64Round(sb, BigSub(mb, ma), e, FALSE)

\* a + b.  The exact sum is formed when the exponents are at most 56 apart;
\* beyond that the smaller operand is below half a unit of the larger's
\* last place.
F64Add(a, b) ==
    IF F64IsZero(a) THEN b
    ELSE IF F64IsZero(b) THEN a
    ELSE IF a.e - b.e > 56 THEN a
    ELSE IF b.e - a.e > 56 THEN b
    ELSE LET e == IF a.e < b.e THEN a.e ELSE b.e
         IN  F64AddAligned(a.s, BigShl(a.m, a.e - e), b.s, BigShl(b.m, b.e - e), e)

F64Sub(a, b) == F64Add(a, F64Neg(b))

F64Lt(a, b) == F64IsNegative(F64Sub(a, b))
F64Le(a, b) == ~F64Lt(b, a)

\* The integer part of m * 2^e.
BigTrunc(m, e) == BigToInt(IF e >= 0 THEN BigShl(m, e) ELSE BigShr(m, -e))

\* Python's int() on a float below 2^31: truncation towards zero.
F64Trunc(a) ==
    IF F64IsZero(a) THEN 0
    ELSE IF a.s = 1 THEN -BigTrunc(a.m, a.e)
    ELSE BigTrunc(a.m, a.e)

(***************************************************************************)
(* The two classes in float64, as the script runs them.                    *)
(***************************************************************************)
F64One == F64FromInt(1)
F64Two == F64FromInt(2)

\* np.radians(78) = 0x1.5c81e15d4af9dp+0.
Radians78 == [s |-> 0, m |-> <<12189, 5970, 481, 1394, 0, 0, 0, 0>>, e |-> -52]
\* np.tan(np.radians(78) / 2) = 0x1.9e9c0346ca836p-1 = 0.809784033195007.
Tan39 == [s |-> 0, m |-> <<10294, 4530, 7171, 1658, 0, 0, 0, 0>>, e |-> -53]
\* np.tan, at the one argument the script gives it.
NpTan(x) == CASE x = F64Div(Radians78, F64Two) -> Tan39

\* numpy's v @ M for a row vector v, in float64.
VecMat64(v, M) ==
    [j \in Idx |-> F64Add(F64Add(F64Mul(v[1], M[1][j]), F64Mul(v[2], M[2][j])),
                          F64Mul(v[3], M[3][j]))]

\* The determinant of rows r1 < r2 and columns c1 < c2 of M.
Det2x2(M, r1, r2, c1, c2) ==
    F64Sub(F64Mul(M[r1][c1], M[r2][c2]), F64Mul(M[r1][c2], M[r2][c1]))

Minor64(M, r, c) ==
    LET rs == Idx \ {r}
        cs == Idx \ {c}
    IN  Det2x2(M, CHOOSE x \in rs : \A y \in rs : x <= y,
                  CHOOSE x \in rs : \A y \in rs : x >= y,
                  CHOOSE x \in cs : \A y \in cs : x <= y,
                  CHOOSE x \in cs : \A y \in cs : x >= y)

\* a, negated when n is odd.
F64Signed(n, a) == IF n % 2 = 0 THEN a ELSE F64Neg(a)

Cofactor64(M, r, c) == F64Signed(r + c, Minor64(M, r, c))

\* v[1] + v[2] + v[3], summed as numpy does, from the left.
Sum3(v) == F64Add(F64Add(v[1], v[2]), v[3])

\* Expansion along the first row.
Det64(M) == Sum3([c \in Idx |-> F64Mul(M[1][c], Cofactor64(M, 1, c))])

\* The adjugate of M over det.
Adjugate64(M, det) == [r \in Idx |-> [c \in Idx |-> F64Div(Cofactor64(M, c, r), det)]]

\* np.linalg.inv in float64.  The entries of T_c are integers and halves of
\* integers and its determinant is -1, so no step rounds, whether by the
\* adjugate as here or by LAPACK's LU factorisation.
Inv64(M) == Adjugate64(M, Det64(M))

\* Lines 32-42, T_c given.
CameraFields64(frame_width, frame_height, angle_of_view, T_c) ==
    [width |-> frame_width, height |-> frame_height, aov |-> angle_of_view,
     T_c |-> T_c, T_d |-> Inv64(T_c)]

CameraModel64(frame_width, frame_height, angle_of_view) ==
    CameraFields64(frame_width, frame_height, angle_of_view,
                   << <<F64One, F64Zero, F64Zero>>,
                      <<F64Zero, F64FromInt(-1), F64Zero>>,
                      <<F64Div(F64FromInt(-frame_width), F64Two),
                        F64Div(F64FromInt(frame_height), F64Two), F64One>> >>)

\* v[:2] of a returned array.
FirstTwo(v) == Ok(<<v[1], v[2]>>)

to_central64(self, x0, y0) ==
    IF F64Lt(x0, F64Zero) \/ F64Lt(y0, F64Zero) THEN Raise(NegativeMsg)
    ELSE IF F64Lt(F64FromInt(self.width), x0) \/ F64Lt(F64FromInt(self.height), y0)
    THEN Raise(ExceedMsg)
    ELSE FirstTwo(VecMat64(<<x0, y0, F64One>>, self.T_c))

to_default64(self, x, y) == FirstTwo(VecMat64(<<x, y, F64One>>, self.T_d))

\* Line 67, for the outcome c of line 66.
obj_angle_of64(self, c) ==
    IF ~IsOk(c) THEN c
    ELSE Ok(F64Div(F64Mul(F64Mul(NpTan(F64Div(self.aov, F64Two)), c.val[1]), F64Two),
                   F64FromInt(self.width)))

obj_angle64(self, x0, y0) == obj_angle_of64(self, to_central64(self, x0, y0))

\* Lines 93-96, for the outcomes tl and tr of lines 90-91.
obj_dist_of64(self, tl, tr) ==
    IF ~IsOk(tl) THEN tl
    ELSE IF ~IsOk(tr) THEN tr
    ELSE IF F64Le(F64Sub(tl.val, tr.val), F64Zero) THEN Raise(NoCrossMsg)
    ELSE Ok(F64Div(F64FromInt(self.d), F64Sub(tl.val, tr.val)))

obj_dist64(self, left_coords, right_coords) ==
    obj_dist_of64(self, obj_angle64(self.left, left_coords[1], left_coords[2]),
                        obj_angle64(self.right, right_coords[1], right_coords[2]))

\* Lines 119-121, for x, y0 and dist of lines 115-118.
obj_coords_at64(self, x, y0, dist) ==
    Ok(<<F64Trunc(to_default64(self.center, x, F64Zero).val[1]), F64Trunc(y0), dist>>)

\* Lines 116-121, for the outcome dist of line 115.
obj_coords_of64(self, left_coords, right_coords, dist) ==
    IF ~IsOk(dist) THEN dist
    ELSE obj_coords_at64(
             self,
             F64Div(F64Mul(F64Div(F64Sub(obj_angle64(self.left, left_coords[1],
                                                     left_coords[2]).val,
                                         F64Div(F64Div(F64FromInt(self.d), F64Two),
                                                dist.val)),
                                  NpTan(F64Div(self.center.aov, F64Two))),
                           F64FromInt(self.center.width)), F64Two),
             F64Div(F64Add(left_coords[2], right_coords[2]), F64Two),
             dist.val)

obj_coords64(self, left_coords, right_coords) ==
    obj_coords_of64(self, left_coords, right_coords,
                    obj_dist64(self, left_coords, right_coords))

(***************************************************************************)
(* SpecFile: the script in file mode, on a file of rows of four integer    *)
(* coordinates.                                                            *)
(***************************************************************************)
MaxRows == 2

ScriptCam == CameraModel64(2048, 1080, Radians78)
ScriptDcam == DoubleCameraModel(ScriptCam, ScriptCam, ScriptCam, 100)

ReshapeMsg == "cannot reshape array of size 1 into shape (2,2)"

\* The rows a file is made of: the scenario of the problem statement, a pair
\* that does not converge, a pair near the left edge, a pair at the right
\* edge and mid-height, and a pair out of frame.
Rows == { <<1045, 0, 648, 0>>, <<500, 0, 1500, 0>>, <<9, 0, 7, 0>>,
          <<2048, 540, 1024, 541>>, <<0, 0, 2049, 0>> }
Files == UNION {[1 .. n -> Rows] : n \in 1 .. MaxRows}

\* np.loadtxt: the numbers as float64, in an array of one row per line; a
\* file of a single line gives a one-dimensional array of its numbers.
LoadTxt(rows) ==
    LET f(row) == [k \in 1 .. Len(row) |-> F64FromInt(row[k])]
    IN  IF Len(rows) = 1
        THEN [ndim |-> 1, a |-> f(rows[1])]
        ELSE [ndim |-> 2, a |-> [k \in 1 .. Len(rows) |-> f(rows[k])]]

\* data[i].reshape(2, 2): a row of four numbers becomes two pairs; a single
\* number cannot be reshaped.
Reshape22(arr, k) ==
    IF arr.ndim = 2
    THEN Ok(<< <<arr.a[k][1], arr.a[k][2]>>, <<arr.a[k][3], arr.a[k][4]>> >>)
    ELSE Raise(ReshapeMsg)

\* The line the body of the loop prints for an outcome: the three values,
\* or the message of the ValueError.
Printed(o) ==
    IF IsOk(o) THEN [values |-> o.val, text |-> ""]
    ELSE [values |-> << >>, text |-> o.msg]

InitFile ==
    /\ file \in Files
    /\ dcam = ScriptDcam
    /\ data = << >>
    /\ row_i = 0
    /\ out = << >>
    /\ pc = "loadtxt"
    /\ cam = Unused /\ xy = Unused /\ coords = Unused
    /\ call = Unused /\ ret = Unused /\ first = Unused

\* Line 142.
Load ==
    /\ pc = "loadtxt"
    /\ data' = LoadTxt(file)
    /\ row_i' = 0
    /\ pc' = "loop"
    /\ UNCHANGED <<camVars, rigVars, call, ret, file, out>>

\* Lines 143-147, one iteration; row_i is i, counted from 0.
LoopBody ==
    /\ pc = "loop"
    /\ row_i < Len(data.a)
    /\ LET c == Reshape22(data, row_i + 1)
           o == IF IsOk(c) THEN obj_coords64(dcam, c.val[1], c.val[2]) ELSE c
       IN  out' = Append(out, Printed(o))
    /\ row_i' = row_i + 1
    /\ UNCHANGED <<camVars, rigVars, call, ret, file, data, pc>>

\* The loop of line 143 ends after len(data) iterations.
LoopEnd ==
    /\ pc = "loop"
    /\ row_i = Len(data.a)
    /\ pc' = "done"
    /\ UNCHANGED <<camVars, rigVars, call, ret, file, data, row_i, out>>

NextFile ==
    \/ Load
    \/ LoopBody
    \/ LoopEnd

SpecFile == InitFile /\ [][NextFile]_vars

(***************************************************************************)
(* Properties of the classes, checked under SpecCam and Spec.              *)
(***************************************************************************)
Half(n) == RDiv(R(n), R(2))
OutOfFrame(c, p) == p[1] < 0 \/ p[2] < 0 \/ p[1] > c.width \/ p[2] > c.height
IsRangeError(o) == o.kind = "ValueError" /\ o.msg \in {NegativeMsg, ExceedMsg}
IsGeometryError(o) == o = Raise(NoCrossMsg)
IsQuery == call.op \in {"obj_dist", "obj_dist_err", "obj_coords"}
BothInFrame == ~OutOfFrame(dcam.left, coords[1]) /\ ~OutOfFrame(dcam.right, coords[2])
\* The bearing tangent of pixel column x0, in closed form.
Tangent(c, x0) == RDiv(RMul(TanHalf(c.aov), R(2 * x0 - c.width)), R(c.width))
TangentDiff == RSub(Tangent(dcam.left, coords[1][1]), Tangent(dcam.right, coords[2][1]))

\* C1: to_central raises a range error exactly when x0 < 0, y0 < 0,
\* x0 > width or y0 > height; on every other pair, the corners included, it
\* returns (x0 - width/2, height/2 - y0).
C1_ToCentralRange ==
    call.op = "to_central" =>
        LET p == call.args
        IN  IF OutOfFrame(cam, p)
            THEN IsRangeError(ret)
            ELSE ret = Ok(<<RSub(R(p[1]), Half(cam.width)), RSub(Half(cam.height), R(p[2]))>>)

C1_Witness ==
    /\ call.op = "to_central"
    /\ call.args = <<cam.width, cam.height>>
    /\ IsOk(ret)
    /\ ret.val = <<Half(cam.width), RNeg(Half(cam.height))>>

\* C2: on in-frame pixel pairs obj_dist and obj_coords raise the geometry
\* error exactly when tl - tr <= 0 (with the same camera left and right:
\* exactly when left x0 <= right x0); otherwise the distance is
\* baseline / (tl - tr), strictly positive.
C2_NoCrossExactly ==
    (call.op \in {"obj_dist", "obj_coords"} /\ BothInFrame) =>
        LET dist == IF call.op = "obj_dist" THEN ret.val ELSE ret.val[3]
        IN  /\ IsGeometryError(ret) <=> RLe(TangentDiff, R(0))
            /\ dcam.left = dcam.right =>
                   (IsGeometryError(ret) <=> coords[1][1] <= coords[2][1])
            /\ ~IsGeometryError(ret) =>
                   /\ IsOk(ret)
                   /\ dist = RDiv(R(dcam.d), TangentDiff)
                   /\ RLt(R(0), dist)

C2_Witness ==
    /\ call.op = "obj_dist"
    /\ BothInFrame
    /\ dcam.left = dcam.right
    /\ coords[1][1] = coords[2][1]
    /\ IsGeometryError(ret)

\* C3 as claimed: obj_dist_err on in-frame pairs with tl - tr <= 0 raises
\* the geometry error and returns no estimate.
C3_DistErrRaises ==
    (call.op = "obj_dist_err" /\ BothInFrame /\ RLe(TangentDiff, R(0))) =>
        IsGeometryError(ret)

\* The range error a pixel pair can cause in a camera.
Violates(c, p, msg) ==
    \/ msg = NegativeMsg /\ (p[1] < 0 \/ p[2] < 0)
    \/ msg = ExceedMsg /\ (p[1] > c.width \/ p[2] > c.height)

\* C4: a query with a pair outside its camera's frame ends in one range
\* error, that of the left pair if the left pair is out of frame and that of
\* the right pair otherwise, whatever the tangents would be.
C4_RangeErrorFirst ==
    (IsQuery /\ ~BothInFrame) =>
        /\ IsRangeError(ret)
        /\ IF OutOfFrame(dcam.left, coords[1])
           THEN Violates(dcam.left, coords[1], ret.msg)
           ELSE Violates(dcam.right, coords[2], ret.msg)

C4_Witness ==
    /\ call.op = "obj_coords"
    /\ coords = << <<-1, 0>>, <<MaxW + 1, 0>> >>
    /\ ret = Raise(NegativeMsg)

\* C6: to_default(to_central(x0, y0)) = (x0, y0) for every in-frame pair.
C6_RoundTrip ==
    call.op = "to_default" =>
        /\ ~OutOfFrame(cam, xy)
        /\ ret = Ok(<<R(xy[1]), R(xy[2])>>)

C6_Witness ==
    /\ call.op = "to_default"
    /\ xy = <<cam.width, cam.height>>
    /\ call.args = <<Half(cam.width), RNeg(Half(cam.height))>>
    /\ ret = Ok(<<R(cam.width), R(cam.height)>>)

\* C7: no call changes a field of the models, and every obj_coords call
\* gives the outcome the first obj_coords call on these inputs gave.
C7_NoHiddenState ==
    [][/\ dcam' = dcam
       /\ call'.op = "obj_coords" => ret' = first']_vars

C7_Witness ==
    /\ first # NoCall
    /\ call.op = "obj_dist_err"
    /\ IsOk(first)
    /\ IsOk(ret)

\* C8: the y0 obj_coords returns is the mean of the two input y0, truncated.
C8_MeanY ==
    (call.op = "obj_coords" /\ IsOk(ret)) =>
        ret.val[2] = (coords[1][2] + coords[2][2]) \div 2

C8_Witness ==
    /\ call.op = "obj_coords"
    /\ IsOk(ret)
    /\ coords[1][2] = 1
    /\ coords[2][2] = 0
    /\ ret.val[2] = 0

\* C9: obj_angle(x0, y0) = tan(aov/2) (2 x0 - width) / width on in-frame
\* pairs: 0 at the centre column, +-tan(aov/2) at the edges, of the sign of
\* x0 - width/2.
C9_ObjAngle ==
    (call.op = "obj_angle" /\ ~OutOfFrame(cam, call.args)) =>
        LET x0 == call.args[1]
        IN  /\ IsOk(ret)
            /\ ret.val = Tangent(cam, x0)
            /\ 2 * x0 = cam.width => ret.val = R(0)
            /\ x0 = cam.width => ret.val = TanHalf(cam.aov)
            /\ x0 = 0 => ret.val = RNeg(TanHalf(cam.aov))
            /\ 2 * x0 > cam.width => RLt(R(0), ret.val)
            /\ 2 * x0 < cam.width => RLt(ret.val, R(0))

C9_Witness ==
    /\ call.op = "obj_angle"
    /\ call.args[1] = cam.width
    /\ IsOk(ret)
    /\ ret.val = TanHalf(cam.aov)

\* C10 in exact arithmetic: with one camera as left, right and center, the
\* x0 of obj_coords is the truncated midpoint of the two input x0.
C10_MidpointExact ==
    (call.op = "obj_coords" /\ IsOk(ret) /\ dcam.left = dcam.right
        /\ dcam.center = dcam.left) =>
        /\ ret.val[1] = (coords[1][1] + coords[2][1]) \div 2
        /\ ret.val[1] \in 0 .. dcam.center.width

(***************************************************************************)
(* Properties of the script in file mode, checked under SpecFile.          *)
(***************************************************************************)
\* What obj_coords gives on a row of the file.
RowOutcome(row) ==
    obj_coords64(dcam, <<F64FromInt(row[1]), F64FromInt(row[2])>>,
                       <<F64FromInt(row[3]), F64FromInt(row[4])>>)

\* C5 as claimed: a file of N >= 1 rows gives exactly N lines, the k-th
\* being the result or the error of the k-th row.
C5_OneLinePerRow ==
    pc = "done" =>
        /\ Len(out) = Len(file)
        /\ \A k \in 1 .. Len(file) : out[k] = Printed(RowOutcome(file[k]))

\* C10 as claimed, on the script's one camera used as left, right and
\* center: the x0 printed for a row is the truncated midpoint of the row's
\* two x0, and lies in the frame.
C10_Midpoint ==
    (pc = "done" /\ Len(file) > 1) =>
        \A k \in 1 .. Len(out) :
            out[k].text = "" =>
                /\ out[k].values[1] = (file[k][1] + file[k][3]) \div 2
                /\ out[k].values[1] \in 0 .. dcam.center.width

====
